---------------------------- MODULE Spec2Model ----------------------------
(***************************************************************************)
(* MindEase AI (src/app.py): a Streamlit script that is re-executed from   *)
(* top to bottom on every user interaction.  The session state             *)
(* (st.session_state) survives between the runs; one action of this model  *)
(* is one script run, chosen by the widget event that triggered it.        *)
(*                                                                         *)
(* Text is a sequence of one-character strings, so that lower(), strip(),  *)
(* startswith(), split(), replace() and `in` are computed on characters    *)
(* the way Python computes them.  A character a TLA+ string cannot hold is *)
(* named by its code point: "U+0060" is the backtick, "U+1F6A8" the one    *)
(* non-ASCII character of the crisis message.                              *)
(***************************************************************************)
EXTENDS Integers, Sequences, FiniteSets, TLC

VARIABLES
    credentials,    \* where GEMINI_API_KEY can be read from, and whether
                    \* genai.Client can be built (app.py:11-21)
    session_state,  \* st.session_state: chat, messages, journal_entries, journal_entry_key
    chatsCreated,   \* number of chat objects client.chats.create has returned so far
    clock,          \* the wall clock, in ticks of TickHours hours since BaseDate 00:00:00
    rerunPending,   \* the next run has no widget event: it is the first run of the
                    \* session, or the rerun st.rerun() asked for
    lastRun,        \* what the last script run was given and what it asked of the model
    display         \* the tables the insights tab rendered last

vars == <<credentials, session_state, chatsCreated, clock, rerunPending, lastRun, display>>

----------------------------------------------------------------------------
(* F(x), with x evaluated once: TLC evaluates an operator's argument anew  *)
(* at each use, a variable bound over a set only when it is bound.         *)
With(x, F(_)) == CHOOSE r \in {F(v) : v \in {x}} : TRUE

----------------------------------------------------------------------------
(* Python's str operations, on sequences of characters.                    *)

UpperLetters ==
    <<"A","B","C","D","E","F","G","H","I","J","K","L","M",
      "N","O","P","Q","R","S","T","U","V","W","X","Y","Z">>

LowerLetters ==
    <<"a","b","c","d","e","f","g","h","i","j","k","l","m",
      "n","o","p","q","r","s","t","u","v","w","x","y","z">>

\* The characters str.strip() removes (the ASCII ones this model's texts use).
Whitespace == {" ", "\t", "\n", "\r"}

\* str.lower() on one character.
LowerChar(c) ==
    IF \E i \in 1..26 : UpperLetters[i] = c
    THEN LowerLetters[CHOOSE i \in 1..26 : UpperLetters[i] = c]
    ELSE c

\* str.lower()
Lower(s) == [i \in 1..Len(s) |-> LowerChar(s[i])]

\* str.strip()
Strip(s) ==
    LET keep == {i \in 1..Len(s) : s[i] \notin Whitespace}
    IN  IF keep = {} THEN <<>>
        ELSE LET first == CHOOSE i \in keep : \A j \in keep : i <= j
                 last  == CHOOSE i \in keep : \A j \in keep : j <= i
             IN  SubSeq(s, first, last)

\* str.startswith(p)
StartsWith(s, p) == Len(s) >= Len(p) /\ SubSeq(s, 1, Len(p)) = p

\* Whether sub occurs in s at index i.
OccursAt(s, sub, i) ==
    i >= 1 /\ i + Len(sub) - 1 <= Len(s) /\ SubSeq(s, i, i + Len(sub) - 1) = sub

\* str.find(sub, from), 1-based; 0 when sub does not occur at or after from.
Find(s, sub, from) ==
    LET hits == {i \in from..(Len(s) - Len(sub) + 1) : OccursAt(s, sub, i)}
    IN  IF hits = {} THEN 0 ELSE CHOOSE i \in hits : \A j \in hits : i <= j

\* sub in s
Contains(s, sub) == Find(s, sub, 1) # 0

\* str.split(sep, 1): the list of one or two parts.
SplitOnce(s, sep) ==
    LET i == Find(s, sep, 1)
    IN  IF i = 0 THEN <<s>>
        ELSE <<SubSeq(s, 1, i - 1), SubSeq(s, i + Len(sep), Len(s))>>

\* str.replace(old, new): every non-overlapping occurrence, left to right
\* (old is never empty here).
RECURSIVE ReplaceFrom(_, _, _, _)
ReplaceFrom(s, old, new, from) ==
    LET i == Find(s, old, from)
    IN  IF i = 0 THEN SubSeq(s, from, Len(s))
        ELSE SubSeq(s, from, i - 1) \o new \o ReplaceFrom(s, old, new, i + Len(old))

Replace(s, old, new) == ReplaceFrom(s, old, new, 1)

\* bool(s) of a str: the empty string is falsy.
Truthy(s) == Len(s) > 0

----------------------------------------------------------------------------
(* The string constants of app.py.                                         *)

KW_SUICIDE ==
    <<"s","u","i","c","i","d","e">>

KW_KILL_MYSELF ==
    <<"k","i","l","l"," ","m","y","s","e","l","f">>

KW_END_MY_LIFE ==
    <<"e","n","d"," ","m","y"," ","l","i","f","e">>

KW_SELF_HARM ==
    <<"s","e","l","f","-","h","a","r","m">>

KW_HARM_MYSELF ==
    <<"h","a","r","m"," ","m","y","s","e","l","f">>

\* app.py:467-473.
crisis_response ==
    <<"U+1F6A8"," ","*","*","C","R","I","S","I","S"," ","A","L","E","R","T",":"," ","I","M",
      "M","E","D","I","A","T","E"," ","A","C","T","I","O","N"," ","R","E","Q","U","I","R","E",
      "D","*","*"," ","U+1F6A8","\n","\n","I"," ","a","m"," ","*","*","M","i","n","d","E","a",
      "s","e"," ","A","I","*","*",","," ","a"," ","c","o","m","p","a","n","i","o","n",","," ",
      "n","o","t"," ","a"," ","c","r","i","s","i","s"," ","r","e","s","o","u","r","c","e",".",
      " ","Y","o","u","r"," ","s","a","f","e","t","y"," ","i","s"," ","p","a","r","a","m","o",
      "u","n","t","."," ","P","l","e","a","s","e",","," ","r","e","a","c","h"," ","o","u","t",
      " ","f","o","r"," ","p","r","o","f","e","s","s","i","o","n","a","l"," ","h","e","l","p",
      " ","*","*","r","i","g","h","t"," ","n","o","w","*","*",".","\n","\n","C","a","l","l",
      " ","o","r"," ","T","e","x","t"," ","*","*","9","8","8","*","*"," ","(","S","u","i","c",
      "i","d","e"," ","&"," ","C","r","i","s","i","s"," ","L","i","f","e","l","i","n","e",")",
      "\n","*","*","S","t","a","y"," ","s","a","f","e","."," ","Y","o","u"," ","a","r","e",
      " ","n","o","t"," ","a","l","o","n","e",".","*","*">>

\* app.py:240, the text returned when the call raised.
CONNECT_FALLBACK ==
    <<"I","'","m"," ","s","o","r","r","y",","," ","I","'","m"," ","h","a","v","i","n","g"," ",
      "t","r","o","u","b","l","e"," ","c","o","n","n","e","c","t","i","n","g"," ","t","o"," ",
      "t","h","e"," ","A","I"," ","r","i","g","h","t"," ","n","o","w","."," ","P","l","e","a",
      "s","e"," ","c","h","e","c","k"," ","y","o","u","r"," ","A","P","I"," ","k","e","y"," ",
      "a","n","d"," ","l","o","g","s",".">>

\* app.py:226
EMOTION_PREFIX ==
    <<"[","E","m","o","t","i","o","n",":">>

\* app.py:228
EMOTION_PREFIX_SP ==
    <<"[","E","m","o","t","i","o","n",":"," ">>

\* app.py:227
CLOSE_BRACKET_SP ==
    <<"]"," ">>

\* app.py:228
CLOSE_BRACKET ==
    <<"]">>

\* app.py:229
I_HEAR_YOU ==
    <<"I"," ","h","e","a","r"," ","y","o","u",".">>

\* app.py:231
NEUTRAL_UNKNOWN ==
    <<"N","e","u","t","r","a","l","/","U","n","k","n","o","w","n">>

\* app.py:240
EMOTION_ERROR ==
    <<"E","r","r","o","r">>

\* app.py:476
EMOTION_CRISIS ==
    <<"C","r","i","s","i","s">>

\* app.py:208
COULD_NOT_GENERATE ==
    <<"C","o","u","l","d"," ","n","o","t"," ","g","e","n","e","r","a","t","e"," ","s","u","m",
      "m","a","r","y",".">>

\* app.py:208
ANALYSIS_ERROR ==
    <<"A","n","a","l","y","s","i","s"," ","E","r","r","o","r">>

\* app.py:205
NO_SUMMARY ==
    <<"N","o"," ","s","u","m","m","a","r","y"," ","a","v","a","i","l","a","b","l","e",".">>

\* app.py:205
SENTIMENT_UNKNOWN ==
    <<"U","n","k","n","o","w","n">>

\* app.py:202
FENCE_JSON ==
    <<"U+0060","U+0060","U+0060","j","s","o","n">>

\* app.py:202
FENCE ==
    <<"U+0060","U+0060","U+0060">>

\* app.py:87, 302
ENTRY_SUFFIX ==
    <<"_","e","n","t","r","y">>

\* app.py:205
KEY_SUMMARY ==
    <<"s","u","m","m","a","r","y">>

\* app.py:205
KEY_SENTIMENT ==
    <<"s","e","n","t","i","m","e","n","t">>

----------------------------------------------------------------------------
(* Crisis check and emotion-tag parsing.                                   *)

CRISIS_KEYWORDS ==
    <<KW_SUICIDE, KW_KILL_MYSELF, KW_END_MY_LIFE, KW_SELF_HARM, KW_HARM_MYSELF>>

\* check_crisis without lower(): the keywords are matched as written.
check_crisis_case_sensitive(text) ==
    \E k \in 1..Len(CRISIS_KEYWORDS) : Contains(text, CRISIS_KEYWORDS[k])

check_crisis(text) ==
    \E k \in 1..Len(CRISIS_KEYWORDS) : Contains(Lower(text), CRISIS_KEYWORDS[k])

(* What a call of the hosted model gives back: the call raised, the        *)
(* response carries no text (response.text is None), or it carries text.   *)
Raised == [outcome |-> "raised", text |-> <<>>]
NoText == [outcome |-> "no_text", text |-> <<>>]
Answer(t) == [outcome |-> "text", text |-> t]

\* get_ai_response_and_emotion with split("] ") in place of split("] ", 1).
get_ai_response_and_emotion_split_all(resp) ==
    IF resp.outcome # "text"
    THEN [ai_response |-> CONNECT_FALLBACK, emotion |-> EMOTION_ERROR]
    ELSE With(Strip(resp.text), LAMBDA full_text :
           IF StartsWith(full_text, EMOTION_PREFIX)
           THEN With(SplitOnce(full_text, CLOSE_BRACKET_SP), LAMBDA parts :
                  With(Replace(parts[1], EMOTION_PREFIX_SP, <<>>), LAMBDA tag :
                    [ai_response |-> IF Len(parts) > 1
                                     THEN SplitOnce(parts[2], CLOSE_BRACKET_SP)[1]
                                     ELSE I_HEAR_YOU,
                     emotion |-> Replace(tag, CLOSE_BRACKET, <<>>)]))
           ELSE [ai_response |-> full_text, emotion |-> NEUTRAL_UNKNOWN])

\* get_ai_response_and_emotion with startswith("[") in place of startswith("[Emotion:").
get_ai_response_and_emotion_any_bracket(resp) ==
    IF resp.outcome # "text"
    THEN [ai_response |-> CONNECT_FALLBACK, emotion |-> EMOTION_ERROR]
    ELSE With(Strip(resp.text), LAMBDA full_text :
           IF StartsWith(full_text, <<"[">>)
           THEN With(SplitOnce(full_text, CLOSE_BRACKET_SP), LAMBDA parts :
                  With(Replace(parts[1], EMOTION_PREFIX_SP, <<>>), LAMBDA tag :
                    [ai_response |-> IF Len(parts) > 1 THEN parts[2] ELSE I_HEAR_YOU,
                     emotion |-> Replace(tag, CLOSE_BRACKET, <<>>)]))
           ELSE [ai_response |-> full_text, emotion |-> NEUTRAL_UNKNOWN])

(* get_ai_response_and_emotion, lines 221-240, given what send_message     *)
(* gave back.  A raised call, and None.strip(), end in the except branch.  *)
get_ai_response_and_emotion(resp) ==
    IF resp.outcome # "text"
    THEN [ai_response |-> CONNECT_FALLBACK, emotion |-> EMOTION_ERROR]
    ELSE With(Strip(resp.text), LAMBDA full_text :
           IF StartsWith(full_text, EMOTION_PREFIX)
           THEN With(SplitOnce(full_text, CLOSE_BRACKET_SP), LAMBDA parts :
                  With(Replace(parts[1], EMOTION_PREFIX_SP, <<>>), LAMBDA tag :
                    [ai_response |-> IF Len(parts) > 1 THEN parts[2] ELSE I_HEAR_YOU,
                     emotion |-> Replace(tag, CLOSE_BRACKET, <<>>)]))
           ELSE [ai_response |-> full_text, emotion |-> NEUTRAL_UNKNOWN])

----------------------------------------------------------------------------
(* json.loads, for the JSON this model's texts can hold: objects, arrays,  *)
(* strings without escapes, integers, null, true, false.  A Python value   *)
(* is [t, s]: its type and its text (a str's characters, else the JSON     *)
(* text it was read from).                                                 *)

JsonWs == {" ", "\t", "\n", "\r"}
Digits == {"0","1","2","3","4","5","6","7","8","9"}

PyVal(t, s) == [t |-> t, s |-> s]
PyStr(s) == PyVal("str", s)

ParseFail == [ok |-> FALSE, next |-> 0, val |-> PyVal("none", <<>>), members |-> <<>>]
ParseOk(next, val, members) == [ok |-> TRUE, next |-> next, val |-> val, members |-> members]

\* The first index at or after i that holds no JSON whitespace (Len(s)+1 at the end).
SkipWs(s, i) ==
    LET stops == {j \in i..Len(s) : s[j] \notin JsonWs}
    IN  IF stops = {} THEN Len(s) + 1 ELSE CHOOSE j \in stops : \A k \in stops : j <= k

\* The character at i, or "" past the end.
At(s, i) == IF i >= 1 /\ i <= Len(s) THEN s[i] ELSE ""

\* A string: an opening quote at i, then characters up to the next quote;
\* a control character inside it is an error.
ParseString(s, i) ==
    IF At(s, i) # "\"" THEN ParseFail
    ELSE LET close == Find(s, <<"\"">>, i + 1)
         IN  IF close = 0 THEN ParseFail
             ELSE LET body == SubSeq(s, i + 1, close - 1)
                  IN  IF \E k \in 1..Len(body) : body[k] \in {"\t", "\n", "\r"}
                      THEN ParseFail
                      ELSE ParseOk(close + 1, PyStr(body), <<>>)

\* An integer: -? (0 | [1-9][0-9]*); what follows it is the caller's to judge.
ParseNumber(s, i) ==
    LET d == IF At(s, i) = "-" THEN i + 1 ELSE i
        nondigits == {j \in d..Len(s) : s[j] \notin Digits}
        end == IF nondigits = {} THEN Len(s) + 1
               ELSE CHOOSE j \in nondigits : \A k \in nondigits : j <= k
    IN  IF end = d THEN ParseFail
        ELSE IF At(s, d) = "0"
        THEN ParseOk(d + 1, PyVal("int", SubSeq(s, i, d)), <<>>)
        ELSE ParseOk(end, PyVal("int", SubSeq(s, i, end - 1)), <<>>)

ParseLiteral(s, i) ==
    IF OccursAt(s, <<"n","u","l","l">>, i)
    THEN ParseOk(i + 4, PyVal("none", <<"n","u","l","l">>), <<>>)
    ELSE IF OccursAt(s, <<"t","r","u","e">>, i)
    THEN ParseOk(i + 4, PyVal("bool", <<"t","r","u","e">>), <<>>)
    ELSE IF OccursAt(s, <<"f","a","l","s","e">>, i)
    THEN ParseOk(i + 5, PyVal("bool", <<"f","a","l","s","e">>), <<>>)
    ELSE ParseFail

RECURSIVE ParseValue(_, _)
RECURSIVE ParseMembers(_, _, _, _)
RECURSIVE ParseElements(_, _, _)

\* The members of an object opened at `open`, the next key expected at i.
ParseMembers(s, open, i, acc) ==
    With(ParseString(s, i), LAMBDA key :
      IF ~key.ok THEN ParseFail
      ELSE With(SkipWs(s, key.next), LAMBDA colon :
        IF At(s, colon) # ":" THEN ParseFail
        ELSE With(ParseValue(s, SkipWs(s, colon + 1)), LAMBDA v :
          IF ~v.ok THEN ParseFail
          ELSE With(SkipWs(s, v.next), LAMBDA e :
            With(Append(acc, [key |-> key.val.s, val |-> v.val]), LAMBDA got :
              IF At(s, e) = ","
              THEN With(SkipWs(s, e + 1), LAMBDA n : ParseMembers(s, open, n, got))
              ELSE IF At(s, e) = "}"
              THEN ParseOk(e + 1, PyVal("dict", SubSeq(s, open, e)), got)
              ELSE ParseFail)))))

\* The elements of an array opened at `open`, the next element expected at i.
ParseElements(s, open, i) ==
    With(ParseValue(s, i), LAMBDA v :
      IF ~v.ok THEN ParseFail
      ELSE With(SkipWs(s, v.next), LAMBDA e :
        IF At(s, e) = ","
        THEN With(SkipWs(s, e + 1), LAMBDA n : ParseElements(s, open, n))
        ELSE IF At(s, e) = "]"
        THEN ParseOk(e + 1, PyVal("list", SubSeq(s, open, e)), <<>>)
        ELSE ParseFail))

ParseValue(s, i) ==
    With(At(s, i), LAMBDA c :
      IF c = "\"" THEN ParseString(s, i)
      ELSE IF c = "{"
      THEN With(SkipWs(s, i + 1), LAMBDA j :
             IF At(s, j) = "}"
             THEN ParseOk(j + 1, PyVal("dict", SubSeq(s, i, j)), <<>>)
             ELSE ParseMembers(s, i, j, <<>>))
      ELSE IF c = "["
      THEN With(SkipWs(s, i + 1), LAMBDA j :
             IF At(s, j) = "]"
             THEN ParseOk(j + 1, PyVal("list", SubSeq(s, i, j)), <<>>)
             ELSE ParseElements(s, i, j))
      ELSE IF c \in Digits \cup {"-"} THEN ParseNumber(s, i)
      ELSE ParseLiteral(s, i))

\* json.loads(text): one value between optional whitespace; ok = FALSE is
\* json.JSONDecodeError.
json_loads(text) ==
    With(text, LAMBDA s :
      With(ParseValue(s, SkipWs(s, 1)), LAMBDA v :
        IF v.ok /\ SkipWs(s, v.next) = Len(s) + 1 THEN v ELSE ParseFail))

\* dict.get(key, default) on the members read, the last of equal keys winning.
DictGet(members, key, default) ==
    LET at == {n \in 1..Len(members) : members[n].key = key}
    IN  IF at = {} THEN default
        ELSE members[CHOOSE n \in at : \A m \in at : m <= n].val

\* analyze_journal_entry where a JSON value that is no dict gives the defaults of .get.
analyze_journal_entry_any_value(resp) ==
    LET failed == [summary |-> PyStr(COULD_NOT_GENERATE), sentiment |-> PyStr(ANALYSIS_ERROR)]
    IN  IF resp.outcome # "text" THEN failed
        ELSE With(Strip(resp.text), LAMBDA stripped :
          With(Replace(stripped, FENCE_JSON, <<>>), LAMBDA unfenced :
            With(Strip(Replace(unfenced, FENCE, <<>>)), LAMBDA json_text :
              With(json_loads(json_text), LAMBDA analysis :
                IF ~analysis.ok THEN failed
                ELSE [summary |-> DictGet(analysis.members, KEY_SUMMARY, PyStr(NO_SUMMARY)),
                      sentiment |-> DictGet(analysis.members, KEY_SENTIMENT,
                                            PyStr(SENTIMENT_UNKNOWN))]))))

(* analyze_journal_entry, lines 196-208, given what generate_content gave  *)
(* back.  The except branch is taken when the call raised, when            *)
(* response.text is None, when json.loads raises, and when the value read  *)
(* is no dict (it has no .get).                                            *)
analyze_journal_entry(resp) ==
    LET failed == [summary |-> PyStr(COULD_NOT_GENERATE), sentiment |-> PyStr(ANALYSIS_ERROR)]
    IN  IF resp.outcome # "text" THEN failed
        ELSE With(Strip(resp.text), LAMBDA stripped :
          With(Replace(stripped, FENCE_JSON, <<>>), LAMBDA unfenced :
            With(Strip(Replace(unfenced, FENCE, <<>>)), LAMBDA json_text :
              With(json_loads(json_text), LAMBDA analysis :
                IF ~analysis.ok \/ analysis.val.t # "dict" THEN failed
                ELSE [summary |-> DictGet(analysis.members, KEY_SUMMARY, PyStr(NO_SUMMARY)),
                      sentiment |-> DictGet(analysis.members, KEY_SENTIMENT,
                                            PyStr(SENTIMENT_UNKNOWN))]))))

\* bool(v) of a Python value read from JSON.
TruthyVal(v) ==
    IF v.t = "str" THEN Len(v.s) > 0
    ELSE IF v.t = "none" THEN FALSE
    ELSE IF v.t = "bool" THEN v.s = <<"t","r","u","e">>
    ELSE IF v.t = "int" THEN v.s \notin {<<"0">>, <<"-","0">>}
    ELSE Strip(SubSeq(v.s, 2, Len(v.s) - 1)) # <<>>

----------------------------------------------------------------------------
(* The wall clock: datetime.date.today(), datetime.datetime.now() and      *)
(* their formatting.  The clock counts ticks of TickHours hours from       *)
(* BaseDate 00:00:00, so that a run may fall on a later day, month or year *)
(* than an earlier one.                                                    *)

TickHours == 24
MaxClock == 1

BaseDate == [y |-> 2025, m |-> 12, d |-> 31]

IsLeap(y) == (y % 4 = 0 /\ y % 100 # 0) \/ y % 400 = 0

DaysInMonth(y, m) ==
    IF m = 2 THEN (IF IsLeap(y) THEN 29 ELSE 28)
    ELSE IF m \in {4, 6, 9, 11} THEN 30 ELSE 31

NextDay(date) ==
    IF date.d < DaysInMonth(date.y, date.m) THEN [date EXCEPT !.d = @ + 1]
    ELSE IF date.m < 12 THEN [y |-> date.y, m |-> date.m + 1, d |-> 1]
    ELSE [y |-> date.y + 1, m |-> 1, d |-> 1]

RECURSIVE AddDays(_, _)
AddDays(date, n) == IF n = 0 THEN date ELSE AddDays(NextDay(date), n - 1)

\* datetime.date.today() and the hour of datetime.datetime.now(), at tick t.
DateAt(t) == AddDays(BaseDate, (t * TickHours) \div 24)
HourAt(t) == (t * TickHours) % 24

DigitChars == <<"0","1","2","3","4","5","6","7","8","9">>
Pad2(n) == <<DigitChars[((n \div 10) % 10) + 1], DigitChars[(n % 10) + 1]>>
Pad4(n) == Pad2(n \div 100) \o Pad2(n % 100)

\* date.isoformat(): YYYY-MM-DD
isoformat(date) == Pad4(date.y) \o <<"-">> \o Pad2(date.m) \o <<"-">> \o Pad2(date.d)

\* The time of day at tick t, %H:%M:%S.
TimeText(t) == Pad2(HourAt(t)) \o <<":","0","0",":","0","0">>

\* datetime.now().strftime("%Y-%m-%d %H:%M:%S")
strftime(t) == isoformat(DateAt(t)) \o <<" ">> \o TimeText(t)

\* datetime.now().isoformat(), the microsecond being 0 at a tick.
isoformat_now(t) == isoformat(DateAt(t)) \o <<"T">> \o TimeText(t)

----------------------------------------------------------------------------
(* The session state and the script run.                                   *)

NoChat == 0

(* Lines 11-21.  st.secrets.get gives the key, "" or None, or raises (no   *)
(* secrets file, or one that cannot be read); os.getenv gives the key, ""  *)
(* or None; genai.Client(api_key=...) gives a client or raises.            *)
PyNone == PyVal("none", <<>>)
SecretsRaises == PyVal("raises", <<>>)
GEMINI_API_KEY == PyStr(<<"A", "I", "z", "a">>)

Client == {"ok", "raises"}
SecretValues == {SecretsRaises, PyNone, PyStr(<<>>), GEMINI_API_KEY}
EnvValues == {PyNone, PyStr(<<>>), GEMINI_API_KEY}
Credentials == [secrets : SecretValues, env : EnvValues, client : Client]

\* Line 12: st.secrets.get("GEMINI_API_KEY") or os.getenv("GEMINI_API_KEY").
API_KEY(c) == IF TruthyVal(c.secrets) THEN c.secrets ELSE c.env

\* Lines 11-21 with `if not API_KEY` left out: only an exception stops the run.
SetupStopsOnExceptionOnly(c) ==
    \/ c.secrets = SecretsRaises
    \/ TruthyVal(API_KEY(c)) /\ c.client = "raises"

\* The run ends at st.stop(): at line 15 when API_KEY is None or "", at line
\* 21 when reading the secrets or building the client raised.
SetupStops(c) ==
    \/ c.secrets = SecretsRaises
    \/ ~TruthyVal(API_KEY(c))
    \/ c.client = "raises"

\* The run goes on past line 21, with a client.
apiKey == ~SetupStops(credentials)

\* The sessions of the specifications that are not about the setup: the key in
\* the secrets, or no key anywhere.
SessionCredentials ==
    {[secrets |-> GEMINI_API_KEY, env |-> PyNone, client |-> "ok"],
     [secrets |-> PyNone, env |-> PyNone, client |-> "ok"]}

EmptyDict == [k \in {} |-> <<>>]

\* A fresh browser session: st.session_state holds no key yet.
NewSession ==
    [chat |-> NoChat, messages |-> <<>>, journal_entries |-> EmptyDict,
     journal_entry_key |-> <<>>]

\* What a run that asked nothing of the model records as the model's answer.
NoCall == [outcome |-> "none", text |-> <<>>]

\* initialize_chat_session with messages set to [] whatever it holds.
initialize_chat_session_clears(ss, fresh) ==
    [ss EXCEPT !.chat = fresh, !.messages = <<>>]

\* initialize_chat_session: client.chats.create returns the chat object `fresh`;
\* messages is set to [] only when it is missing or empty.
initialize_chat_session(ss, fresh) ==
    [ss EXCEPT !.chat = fresh,
               !.messages = IF Len(ss.messages) = 0 THEN <<>> ELSE @]

manage_chat_session_state(ss, fresh) ==
    IF ss.chat = NoChat THEN initialize_chat_session(ss, fresh) ELSE ss

\* Lines 80-87, run at the top of every script run that has an API key.
TopOfScript(ss, fresh, now) ==
    LET s1 == manage_chat_session_state(ss, fresh)
    IN  [s1 EXCEPT !.journal_entry_key =
                       IF Len(@) = 0 THEN isoformat(DateAt(now)) \o ENTRY_SUFFIX ELSE @]

UserMessage(prompt) == [role |-> "user", content |-> prompt]
AssistantMessage(content, emotion) ==
    [role |-> "assistant", content |-> content, emotion |-> emotion]

\* render_chat_tab without lines 505-506: the chat object is kept.
render_chat_tab_keeps_chat(ss, prompt, resp) ==
    LET s1 == [ss EXCEPT !.messages = Append(@, UserMessage(prompt))]
    IN  IF check_crisis(prompt)
        THEN [ss |-> [s1 EXCEPT !.messages =
                                    Append(@, AssistantMessage(crisis_response, EMOTION_CRISIS))],
              called |-> FALSE]
        ELSE LET called == s1.chat # NoChat
             IN  With(get_ai_response_and_emotion(IF called THEN resp ELSE Raised), LAMBDA r :
                 [ss |-> [s1 EXCEPT !.messages =
                                        Append(@, AssistantMessage(r.ai_response, r.emotion))],
                  called |-> called])

\* render_chat_tab without line 476: the crisis message is shown, not stored.
render_chat_tab_crisis_not_stored(ss, prompt, resp) ==
    LET s1 == [ss EXCEPT !.messages = Append(@, UserMessage(prompt))]
    IN  IF check_crisis(prompt)
        THEN [ss |-> s1, called |-> FALSE]
        ELSE LET called == s1.chat # NoChat
             IN  With(get_ai_response_and_emotion(IF called THEN resp ELSE Raised), LAMBDA r :
                 [ss |-> [s1 EXCEPT !.messages =
                                        Append(@, AssistantMessage(r.ai_response, r.emotion)),
                                    !.chat = NoChat],
                  called |-> called])

(* render_chat_tab with a submitted prompt, lines 459-508.  resp is what   *)
(* send_message gives back if it is called; `called` tells whether it was. *)
(* With no chat object in the session state, st.session_state.chat raises  *)
(* inside the try of get_ai_response_and_emotion, before any call.         *)
render_chat_tab(ss, prompt, resp) ==
    LET s1 == [ss EXCEPT !.messages = Append(@, UserMessage(prompt))]
    IN  IF check_crisis(prompt)
        THEN [ss |-> [s1 EXCEPT !.messages =
                                    Append(@, AssistantMessage(crisis_response, EMOTION_CRISIS))],
              called |-> FALSE]
        ELSE LET called == s1.chat # NoChat
             IN  With(get_ai_response_and_emotion(IF called THEN resp ELSE Raised), LAMBDA r :
                 [ss |-> [s1 EXCEPT !.messages =
                                        Append(@, AssistantMessage(r.ai_response, r.emotion)),
                                    !.chat = NoChat],
                  called |-> called])

\* dict[key] = [entry]: the list under the key is replaced.
DictAssign(dict, key, entry) ==
    [k \in DOMAIN dict \cup {key} |-> IF k = key THEN <<entry>> ELSE dict[k]]

\* dict[key].append(entry), the key added with an empty list when missing.
DictAppend(dict, key, entry) ==
    [k \in DOMAIN dict \cup {key} |->
        IF k = key
        THEN Append(IF key \in DOMAIN dict THEN dict[key] ELSE <<>>, entry)
        ELSE dict[k]]

(* render_journal_tab with "Save Entry" clicked, lines 267-307.  The run   *)
(* reads the clock three times; it is shorter than a tick, so all three    *)
(* read `now`.                                                             *)
render_journal_tab(ss, new_entry, resp, now) ==
    IF Truthy(Strip(new_entry))
    THEN With(analyze_journal_entry(resp), LAMBDA a :
           With([timestamp |-> strftime(now), content |-> Strip(new_entry),
                 summary |-> a.summary, sentiment |-> a.sentiment], LAMBDA entry_data :
             [ss |-> [ss EXCEPT !.journal_entries =
                                    DictAppend(@, isoformat(DateAt(now)), entry_data),
                                !.journal_entry_key = isoformat_now(now) \o ENTRY_SUFFIX],
              called |-> TRUE]))
    ELSE [ss |-> ss, called |-> FALSE]

----------------------------------------------------------------------------
(* render_insights_tab: the two frequency tables.                          *)

\* The number of i with seq[i] = x.
CountOf(seq, x) == Cardinality({i \in 1..Len(seq) : seq[i] = x})

\* collections.Counter(seq).items(): one row per distinct label.
Counter(seq) ==
    {[label |-> seq[i], count |-> CountOf(seq, seq[i])] : i \in 1..Len(seq)}

(* DataFrame.sort_values(by='Count', ascending=False): pandas' default     *)
(* sort is not stable, so rows of equal count may come in any order.       *)
sort_values(rows) ==
    {t \in [1..Cardinality(rows) -> rows] :
        /\ \A i, j \in DOMAIN t : i # j => t[i] # t[j]
        /\ \A i, j \in DOMAIN t : i < j => t[i].count >= t[j].count}

\* Line 365: the filter of the list comprehension.
IsChatEmotion(msg) ==
    /\ msg.role = "assistant"
    /\ msg.emotion \notin {NEUTRAL_UNKNOWN, EMOTION_ERROR, EMOTION_CRISIS}

\* Lines 364-365.
chat_emotions(ss) ==
    LET kept == SelectSeq(ss.messages, IsChatEmotion)
    IN  [i \in 1..Len(kept) |-> kept[i].emotion]

\* Line 397.
IsJournalSentiment(entry) ==
    /\ TruthyVal(entry.sentiment)
    /\ ~(entry.sentiment.t = "str"
         /\ entry.sentiment.s \in {ANALYSIS_ERROR, SENTIMENT_UNKNOWN})

\* Lines 393-398: the sentiments kept, day by day.
RECURSIVE SentimentsOf(_, _)
SentimentsOf(dict, days) ==
    IF days = {} THEN <<>>
    ELSE LET day == CHOOSE k \in days : TRUE
             kept == SelectSeq(dict[day], IsJournalSentiment)
         IN  [i \in 1..Len(kept) |-> kept[i].sentiment]
                 \o SentimentsOf(dict, days \ {day})

journal_sentiments(ss) == SentimentsOf(ss.journal_entries, DOMAIN ss.journal_entries)

\* hash(v) raises TypeError for a list and a dict.
Unhashable(v) == v.t \in {"list", "dict"}

NoDisplay == [chat |-> <<>>, journal |-> <<>>, raised |-> FALSE]

(* The displays one rendering of the insights tab can give, lines 364-406: *)
(* the two tables, each empty when it is not drawn.  Counter(...) of the   *)
(* sentiments raises TypeError when one of them is unhashable: the run ends *)
(* there, after the chat table was drawn.                                  *)
render_insights_tab(ss) ==
    LET emotions == chat_emotions(ss)
        sentiments == journal_sentiments(ss)
        chats == IF Len(emotions) = 0 THEN {<<>>} ELSE sort_values(Counter(emotions))
    IN  IF Len(emotions) = 0 /\ DOMAIN ss.journal_entries = {}
        THEN {NoDisplay}
        ELSE IF \E i \in 1..Len(sentiments) : Unhashable(sentiments[i])
        THEN {[chat |-> c, journal |-> <<>>, raised |-> TRUE] : c \in chats}
        ELSE {[chat |-> c, journal |-> j, raised |-> FALSE] :
                 c \in chats,
                 j \in (IF Len(sentiments) = 0 THEN {<<>>}
                        ELSE sort_values(Counter(sentiments)))}

----------------------------------------------------------------------------
(* The inputs the runs draw from: what the user submits, what the model    *)

(* answers.  The model is not bound to any format, so the answers hold     *)
(* well-formed and malformed texts alike.                                  *)

P_SAD ==
    <<"i"," ","f","e","e","l"," ","s","a","d">>

P_END_MY_LIFE ==
    <<"I"," ","w","a","n","t"," ","t","o"," ","E","N","D"," ","m","y"," ","L","i","f","e">>

A_SADNESS ==
    <<"[","E","m","o","t","i","o","n",":"," ","S","a","d","n","e","s","s","]"," ","I"," ","h",
      "e","a","r"," ","t","h","a","t","."," ">>

J_BLANK ==
    <<" ","\n">>

J_CALM ==
    <<" ","c","a","l","m"," ","d","a","y","\n">>

J_SUICIDE ==
    <<"t","h","o","u","g","h","t","s"," ","o","f"," ","S","u","i","c","i","d","e">>

A_FENCED ==
    <<"U+0060","U+0060","U+0060","j","s","o","n","\n","{","\"","s","u","m","m","a","r","y",
      "\"",":"," ","\"","o","k","\"",","," ","\"","s","e","n","t","i","m","e","n","t","\"",
      ":"," ","\"","C","a","l","m","\"","}","\n","U+0060","U+0060","U+0060">>

\* The session specification's inputs.
Prompts == {P_SAD, P_END_MY_LIFE}
ChatAnswers == {Raised, Answer(A_SADNESS)}
JournalTexts == {J_BLANK, J_CALM, J_SUICIDE}
JournalAnswers == {Raised, Answer(A_FENCED)}

\* str.upper() on one character.
UpperChar(c) ==
    IF \E i \in 1..26 : LowerLetters[i] = c
    THEN UpperLetters[CHOOSE i \in 1..26 : LowerLetters[i] = c]
    ELSE c

\* A keyword in one of four letter cases.
Cased(kw, mode) ==
    [i \in 1..Len(kw) |->
        IF mode = "upper" \/ (mode = "title" /\ i = 1) \/ (mode = "mixed" /\ i % 2 = 0)
        THEN UpperChar(kw[i]) ELSE kw[i]]

FRAME_BEFORE ==
    <<"I"," ","t","h","i","n","k"," ","o","f"," ">>

FRAME_AFTER ==
    <<" ","a"," ","l","o","t",".">>

\* Prompts that hold a crisis keyword, alone or inside a sentence.
CrisisPrompts ==
    {f[1] \o Cased(CRISIS_KEYWORDS[k], mode) \o f[2] :
        k \in 1..Len(CRISIS_KEYWORDS),
        mode \in {"lower", "upper", "title", "mixed"},
        f \in {<<<<>>, <<>>>>, <<FRAME_BEFORE, FRAME_AFTER>>}}

\* Prompts that hold none: an ordinary one, and near misses of the keywords.
CalmPrompts ==
    {
      \* 'i feel sad'
      <<"i"," ","f","e","e","l"," ","s","a","d">>,
      \* 'suicid'
      <<"s","u","i","c","i","d">>,
      \* 'Kill my self'
      <<"K","i","l","l"," ","m","y"," ","s","e","l","f">>,
      \* 'end my lif e'
      <<"e","n","d"," ","m","y"," ","l","i","f"," ","e">>,
      \* 'selfharm'
      <<"s","e","l","f","h","a","r","m">>,
      \* 'HARM  MYSELF'
      <<"H","A","R","M"," "," ","M","Y","S","E","L","F">>,
      \* 'sui cide'
      <<"s","u","i"," ","c","i","d","e">>
    }

\* The model's output in the form the prompt asks for.
TagForm(W, R) == EMOTION_PREFIX_SP \o W \o CLOSE_BRACKET_SP \o R

\* Emotion words: none holds "]" or white space.
TagWords ==
    {
      \* 'Joy'
      <<"J","o","y">>,
      \* 'Sadness'
      <<"S","a","d","n","e","s","s">>,
      \* ''
      <<>>,
      \* 'Mixed-Feelings'
      <<"M","i","x","e","d","-","F","e","e","l","i","n","g","s">>,
      \* '[Emotion:'
      <<"[","E","m","o","t","i","o","n",":">>
    }

\* Response texts, none empty; some hold "] ", some end in white space.
ResponseTexts ==
    {
      \* 'Great to hear!'
      <<"G","r","e","a","t"," ","t","o"," ","h","e","a","r","!">>,
      \* 'ok ] fine'
      <<"o","k"," ","]"," ","f","i","n","e">>,
      \* 'a] b] c'
      <<"a","]"," ","b","]"," ","c">>,
      \* 'bye \n'
      <<"b","y","e"," ","\n">>,
      \* ' '
      <<" ">>,
      \* ' lead'
      <<" ","l","e","a","d">>,
      \* 'x]'
      <<"x","]">>,
      \* '] '
      <<"]"," ">>,
      \* '\n\n'
      <<"\n","\n">>
    }

\* Outputs that do not begin with "[Emotion:", with or without white space around.
UntaggedTexts ==
    {
      \* 'Hello there'
      <<"H","e","l","l","o"," ","t","h","e","r","e">>,
      \* '  padded text \n'
      <<" "," ","p","a","d","d","e","d"," ","t","e","x","t"," ","\n">>,
      \* 'Emotion: Joy] hi'
      <<"E","m","o","t","i","o","n",":"," ","J","o","y","]"," ","h","i">>,
      \* '[emotion: joy] hi'
      <<"[","e","m","o","t","i","o","n",":"," ","j","o","y","]"," ","h","i">>,
      \* '[Emotion hi'
      <<"[","E","m","o","t","i","o","n"," ","h","i">>,
      \* '[ Emotion: Joy] hi'
      <<"["," ","E","m","o","t","i","o","n",":"," ","J","o","y","]"," ","h","i">>,
      \* ''
      <<>>,
      \* '   '
      <<" "," "," ">>,
      \* 'I feel [Emotion: Joy] today'
      <<"I"," ","f","e","e","l"," ","[","E","m","o","t","i","o","n",":"," ","J","o","y","]"," ",
        "t","o","d","a","y">>,
      \* '(Emotion: Joy) hi'
      <<"(","E","m","o","t","i","o","n",":"," ","J","o","y",")"," ","h","i">>,
      \* '[note] hi'
      <<"[","n","o","t","e","]"," ","h","i">>,
      \* '[Emotion'
      <<"[","E","m","o","t","i","o","n">>
    }

\* Outputs with white space before the tag.
PaddedTagTexts ==
    {
      \* '\n[Emotion: Joy] hi'
      <<"\n","[","E","m","o","t","i","o","n",":"," ","J","o","y","]"," ","h","i">>,
      \* ' [Emotion: Calm] ok '
      <<" ","[","E","m","o","t","i","o","n",":"," ","C","a","l","m","]"," ","o","k"," ">>
    }

\* Outputs whose brackets are malformed or missing.
MalformedTexts ==
    {
      \* '[Emotion: Joy'
      <<"[","E","m","o","t","i","o","n",":"," ","J","o","y">>,
      \* '[Emotion: Joy]'
      <<"[","E","m","o","t","i","o","n",":"," ","J","o","y","]">>,
      \* '[Emotion:Joy] hi'
      <<"[","E","m","o","t","i","o","n",":","J","o","y","]"," ","h","i">>,
      \* '[Emotion: Joy]hi'
      <<"[","E","m","o","t","i","o","n",":"," ","J","o","y","]","h","i">>,
      \* '[Emotion:'
      <<"[","E","m","o","t","i","o","n",":">>,
      \* '[Emotion: Joy Great to hear!'
      <<"[","E","m","o","t","i","o","n",":"," ","J","o","y"," ","G","r","e","a","t"," ","t","o",
        " ","h","e","a","r","!">>,
      \* '[Emotion:] hi'
      <<"[","E","m","o","t","i","o","n",":","]"," ","h","i">>,
      \* '[Emotion:Joy]'
      <<"[","E","m","o","t","i","o","n",":","J","o","y","]">>,
      \* 'Emotion: Joy] hi'
      <<"E","m","o","t","i","o","n",":"," ","J","o","y","]"," ","h","i">>,
      \* '[Emotion Joy] hi'
      <<"[","E","m","o","t","i","o","n"," ","J","o","y","]"," ","h","i">>
    }

ParseAnswers ==
    {Raised, NoText}
        \cup {Answer(TagForm(W, R)) : W \in TagWords, R \in ResponseTexts}
        \cup {Answer(t) : t \in UntaggedTexts \cup PaddedTagTexts \cup MalformedTexts}

\* Analysis texts that hold a JSON object, fenced or not.
ObjectJsonTexts ==
    {
      \* '```json\n{"summary": "ok", "sentiment": "Calm"}\n```'
      <<"U+0060","U+0060","U+0060","j","s","o","n","\n","{","\"","s","u","m","m","a","r","y",
        "\"",":"," ","\"","o","k","\"",","," ","\"","s","e","n","t","i","m","e","n","t","\"",
        ":"," ","\"","C","a","l","m","\"","}","\n","U+0060","U+0060","U+0060">>,
      \* '{"summary": "s", "sentiment": "Stressed"}'
      <<"{","\"","s","u","m","m","a","r","y","\"",":"," ","\"","s","\"",","," ","\"","s","e",
        "n","t","i","m","e","n","t","\"",":"," ","\"","S","t","r","e","s","s","e","d","\"","}">>,
      \* '{"sentiment": "Calm"}'
      <<"{","\"","s","e","n","t","i","m","e","n","t","\"",":"," ","\"","C","a","l","m","\"","}">>,
      \* '{}'
      <<"{","}">>,
      \* '{"summary": "s", "sentiment": ""}'
      <<"{","\"","s","u","m","m","a","r","y","\"",":"," ","\"","s","\"",","," ","\"","s","e",
        "n","t","i","m","e","n","t","\"",":"," ","\"","\"","}">>,
      \* '{"summary": null, "sentiment": ["Calm"]}'
      <<"{","\"","s","u","m","m","a","r","y","\"",":"," ","n","u","l","l",","," ","\"","s","e",
        "n","t","i","m","e","n","t","\"",":"," ","[","\"","C","a","l","m","\"","]","}">>,
      \* '{"sentiment": "a", "sentiment": "b"}'
      <<"{","\"","s","e","n","t","i","m","e","n","t","\"",":"," ","\"","a","\"",","," ","\"",
        "s","e","n","t","i","m","e","n","t","\"",":"," ","\"","b","\"","}">>,
      \* ' ```\n{ "summary" : "x" , "sentiment" : "Hopeful" }\n``` '
      <<" ","U+0060","U+0060","U+0060","\n","{"," ","\"","s","u","m","m","a","r","y","\""," ",
        ":"," ","\"","x","\""," ",","," ","\"","s","e","n","t","i","m","e","n","t","\""," ",":",
        " ","\"","H","o","p","e","f","u","l","\""," ","}","\n","U+0060","U+0060","U+0060"," ">>
    }

\* Analysis texts that hold no JSON value.
NotJsonTexts ==
    {
      \* 'Sorry, I cannot help.'
      <<"S","o","r","r","y",","," ","I"," ","c","a","n","n","o","t"," ","h","e","l","p",".">>,
      \* ''
      <<>>,
      \* '{"summary": "s", "sentiment": "Calm"'
      <<"{","\"","s","u","m","m","a","r","y","\"",":"," ","\"","s","\"",","," ","\"","s","e",
        "n","t","i","m","e","n","t","\"",":"," ","\"","C","a","l","m","\"">>,
      \* "{'summary': 's'}"
      <<"{","'","s","u","m","m","a","r","y","'",":"," ","'","s","'","}">>,
      \* '{"summary": "s",}'
      <<"{","\"","s","u","m","m","a","r","y","\"",":"," ","\"","s","\"",",","}">>,
      \* '{"summary": "s"} extra'
      <<"{","\"","s","u","m","m","a","r","y","\"",":"," ","\"","s","\"","}"," ","e","x","t","r",
        "a">>,
      \* '```json\n\n```'
      <<"U+0060","U+0060","U+0060","j","s","o","n","\n","\n","U+0060","U+0060","U+0060">>,
      \* '{"summary": "line\nbreak"}'
      <<"{","\"","s","u","m","m","a","r","y","\"",":"," ","\"","l","i","n","e","\n","b","r","e",
        "a","k","\"","}">>,
      \* '{"a": 01}'
      <<"{","\"","a","\"",":"," ","0","1","}">>,
      \* 'nul'
      <<"n","u","l">>
    }

\* Analysis texts that hold a JSON value that is no object.
NonObjectJsonTexts ==
    {
      \* '"Calm"'
      <<"\"","C","a","l","m","\"">>,
      \* '["summary", "sentiment"]'
      <<"[","\"","s","u","m","m","a","r","y","\"",","," ","\"","s","e","n","t","i","m","e","n",
        "t","\"","]">>,
      \* '42'
      <<"4","2">>,
      \* 'null'
      <<"n","u","l","l">>,
      \* 'true'
      <<"t","r","u","e">>,
      \* '[]'
      <<"[","]">>,
      \* '```json\n[{"summary": "s"}]\n```'
      <<"U+0060","U+0060","U+0060","j","s","o","n","\n","[","{","\"","s","u","m","m","a","r",
        "y","\"",":"," ","\"","s","\"","}","]","\n","U+0060","U+0060","U+0060">>,
      \* '-0'
      <<"-","0">>
    }

\* Journal texts: two with something to save, one blank.
RichJournalTexts ==
    {
      \* ' calm day\n'
      <<" ","c","a","l","m"," ","d","a","y","\n">>,
      \* 'x'
      <<"x">>,
      \* ' \n'
      <<" ","\n">>
    }

RichJournalAnswers ==
    {Raised, NoText}
        \cup {Answer(t) : t \in ObjectJsonTexts \cup NotJsonTexts \cup NonObjectJsonTexts}

A_JOY ==
    <<"[","E","m","o","t","i","o","n",":"," ","J","o","y","]"," ","G","l","a","d","!">>

A_PLAIN ==
    <<"T","e","l","l"," ","m","e"," ","m","o","r","e",".">>

\* Analysis texts by the sentiment they carry: two labels, an empty one, none, a list.
SentimentTexts ==
    {
      \* '{"summary": "s", "sentiment": "Calm"}'
      <<"{","\"","s","u","m","m","a","r","y","\"",":"," ","\"","s","\"",","," ","\"","s","e",
        "n","t","i","m","e","n","t","\"",":"," ","\"","C","a","l","m","\"","}">>,
      \* '{"summary": "s", "sentiment": "Stressed"}'
      <<"{","\"","s","u","m","m","a","r","y","\"",":"," ","\"","s","\"",","," ","\"","s","e",
        "n","t","i","m","e","n","t","\"",":"," ","\"","S","t","r","e","s","s","e","d","\"","}">>,
      \* '{"summary": "s", "sentiment": ""}'
      <<"{","\"","s","u","m","m","a","r","y","\"",":"," ","\"","s","\"",","," ","\"","s","e",
        "n","t","i","m","e","n","t","\"",":"," ","\"","\"","}">>,
      \* '{"summary": "s"}'
      <<"{","\"","s","u","m","m","a","r","y","\"",":"," ","\"","s","\"","}">>,
      \* '{"summary": "s", "sentiment": ["Calm"]}'
      <<"{","\"","s","u","m","m","a","r","y","\"",":"," ","\"","s","\"",","," ","\"","s","e",
        "n","t","i","m","e","n","t","\"",":"," ","[","\"","C","a","l","m","\"","]","}">>
    }

InsightChatAnswers == {Raised, Answer(A_JOY), Answer(A_SADNESS), Answer(A_PLAIN)}
InsightJournalAnswers == {Raised} \cup {Answer(t) : t \in SentimentTexts}

----------------------------------------------------------------------------
(* The script runs.                                                        *)

NoRun == [event |-> "none", input |-> <<>>, called |-> FALSE, resp |-> NoCall,
          chat |-> NoChat]

\* The ticks a run starting now can read: time passes between the runs.
Nows == {t \in {clock, clock + 1} : t <= MaxClock}

\* The number of journal entries, over all days.
RECURSIVE EntryCount(_, _)
EntryCount(dict, days) ==
    IF days = {} THEN 0
    ELSE LET day == CHOOSE k \in days : TRUE
         IN  Len(dict[day]) + EntryCount(dict, days \ {day})

Entries(ss) == EntryCount(ss.journal_entries, DOMAIN ss.journal_entries)

Init ==
    /\ credentials \in SessionCredentials
    /\ session_state = NewSession
    /\ chatsCreated = 0
    /\ clock = 0
    /\ rerunPending = TRUE
    /\ lastRun = NoRun
    /\ display = NoDisplay

\* Lines 11-21: the run ends at st.stop(), at line 15 or at line 21.
RunStopped ==
    /\ ~apiKey
    /\ lastRun' = [NoRun EXCEPT !.event = "stopped"]
    /\ UNCHANGED <<credentials, session_state, chatsCreated, clock, rerunPending, display>>

\* The chat objects created so far, after a top of script that left ss.
Created(ss) == IF ss.chat = chatsCreated + 1 THEN chatsCreated + 1 ELSE chatsCreated

\* A run with no widget event (a tab switch, or the rerun st.rerun() asked
\* for): every tab is rendered and nothing is submitted.
RunRender ==
    /\ apiKey
    /\ \E now \in Nows :
        \E s1 \in {TopOfScript(session_state, chatsCreated + 1, now)} :
            /\ session_state' = s1
            /\ chatsCreated' = Created(s1)
            /\ clock' = now
            /\ display' \in render_insights_tab(s1)
    /\ rerunPending' = FALSE
    /\ lastRun' = NoRun
    /\ UNCHANGED credentials

\* A run triggered by a prompt submitted to st.chat_input; it ends in
\* st.rerun() (lines 478, 508).
RunChat(prompt, resp, maxMessages) ==
    /\ apiKey /\ ~rerunPending
    /\ Len(session_state.messages) + 2 <= maxMessages
    /\ \E now \in Nows :
        \E s1 \in {TopOfScript(session_state, chatsCreated + 1, now)} :
        \E r \in {render_chat_tab(s1, prompt, resp)} :
            /\ r.called <=> resp # NoCall
            /\ session_state' = r.ss
            /\ chatsCreated' = Created(s1)
            /\ clock' = now
            /\ lastRun' = [event |-> "chat", input |-> prompt, called |-> r.called,
                           resp |-> resp, chat |-> IF r.called THEN s1.chat ELSE NoChat]
    /\ rerunPending' = TRUE
    /\ UNCHANGED <<credentials, display>>

\* A run triggered by a click on "Save Entry"; it ends in st.rerun() (line 307).
RunSave(new_entry, resp, maxEntries) ==
    /\ apiKey /\ ~rerunPending
    /\ Truthy(Strip(new_entry)) => Entries(session_state) < maxEntries
    /\ \E now \in Nows :
        \E s1 \in {TopOfScript(session_state, chatsCreated + 1, now)} :
        \E r \in {render_journal_tab(s1, new_entry, resp, now)} :
            /\ r.called <=> resp # NoCall
            /\ session_state' = r.ss
            /\ chatsCreated' = Created(s1)
            /\ clock' = now
            /\ lastRun' = [event |-> "save", input |-> new_entry, called |-> r.called,
                           resp |-> resp, chat |-> NoChat]
    /\ rerunPending' = TRUE
    /\ UNCHANGED <<credentials, display>>

----------------------------------------------------------------------------
(* The specifications.                                                     *)

MaxTurns == 2
MaxEntries == 2

\* A session: chat turns, journal saves and plain runs, in any order.
Next ==
    \/ RunStopped
    \/ RunRender
    \/ \E p \in Prompts, a \in ChatAnswers \cup {NoCall} : RunChat(p, a, 2 * MaxTurns)
    \/ \E t \in JournalTexts, a \in JournalAnswers \cup {NoCall} : RunSave(t, a, MaxEntries)

Spec == Init /\ [][Next]_vars

MaxRichTurns == 1

\* Chat turns alone, over prompts in every letter case.
NextChat ==
    \/ RunRender
    \/ \E p \in CrisisPrompts \cup CalmPrompts, a \in ChatAnswers \cup {NoCall} :
           RunChat(p, a, 2 * MaxRichTurns)

InitKeyed == Init /\ apiKey

SpecChat == InitKeyed /\ [][NextChat]_vars

\* Chat turns over the model's outputs, well-formed and not: the tag parsing.
NextParse ==
    \/ RunRender
    \/ \E a \in ParseAnswers : RunChat(P_SAD, a, 2 * MaxRichTurns)

SpecParse == InitKeyed /\ [][NextParse]_vars

MaxRichEntries == 1

\* Journal saves over the analysis texts, parseable and not.
NextJournal ==
    \/ RunRender
    \/ \E t \in RichJournalTexts, a \in RichJournalAnswers \cup {NoCall} :
           RunSave(t, a, MaxRichEntries)

SpecJournal == InitKeyed /\ [][NextJournal]_vars

MaxLabels == 3
MaxSentiments == 2

\* Sessions by the labels they collect: chat turns by the emotion they add,
\* saves by the sentiment they add, and the insights tab rendered in between.
NextInsights ==
    \/ RunRender
    \/ \E a \in InsightChatAnswers : RunChat(P_SAD, a, 2 * MaxLabels)
    \/ RunChat(P_END_MY_LIFE, NoCall, 2 * MaxLabels)
    \/ \E a \in InsightJournalAnswers : RunSave(J_CALM, a, MaxSentiments)

SpecInsights == InitKeyed /\ [][NextInsights]_vars

\* Sessions under every way the key can be there or not: one chat turn, one
\* save, and plain runs.
NextStartup ==
    \/ RunStopped
    \/ RunRender
    \/ \E p \in Prompts, a \in ChatAnswers \cup {NoCall} : RunChat(p, a, 2 * MaxRichTurns)
    \/ \E t \in JournalTexts, a \in JournalAnswers \cup {NoCall} :
           RunSave(t, a, MaxRichEntries)

InitStartup ==
    /\ credentials \in Credentials
    /\ session_state = NewSession
    /\ chatsCreated = 0
    /\ clock = 0
    /\ rerunPending = TRUE
    /\ lastRun = NoRun
    /\ display = NoDisplay

SpecStartup == InitStartup /\ [][NextStartup]_vars

MaxPairTurns == 3

\* Chat turns alone, of the three kinds: crisis, answered, failed.
NextTurns ==
    \/ RunRender
    \/ \E p \in Prompts, a \in ChatAnswers \cup {NoCall} : RunChat(p, a, 2 * MaxPairTurns)

SpecTurns == InitKeyed /\ [][NextTurns]_vars

----------------------------------------------------------------------------
(* The claims.                                                             *)

Messages == session_state.messages
Journal == session_state.journal_entries

\* The last n messages.
LastMessages(n) == SubSeq(Messages, Len(Messages) - n + 1, Len(Messages))

\* c is the letter d of a keyword, in either case.
SameLetter(c, d) == c = d \/ c = UpperChar(d)

\* text holds a crisis keyword as a substring, in any letter case.
HasCrisisKeyword(text) ==
    \E k \in 1..Len(CRISIS_KEYWORDS) :
        \E i \in 1..Len(text) :
            /\ i + Len(CRISIS_KEYWORDS[k]) - 1 <= Len(text)
            /\ \A j \in 1..Len(CRISIS_KEYWORDS[k]) :
                   SameLetter(text[i + j - 1], CRISIS_KEYWORDS[k][j])

\* C1: a chat prompt that holds a crisis keyword, in any letter case, gets the
\* static crisis message as the assistant's reply, with emotion "Crisis", and
\* send_message is not called in that turn.
C1_CrisisShortCircuit ==
    (lastRun.event = "chat" /\ HasCrisisKeyword(lastRun.input)) =>
        /\ ~lastRun.called
        /\ Len(Messages) >= 2
        /\ LastMessages(2) = <<UserMessage(lastRun.input),
                               AssistantMessage(crisis_response, EMOTION_CRISIS)>>

\* C1's case: a turn whose prompt holds a keyword in upper-case letters.
C1_Witness ==
    /\ lastRun.event = "chat"
    /\ HasCrisisKeyword(lastRun.input)
    /\ lastRun.input # Lower(lastRun.input)
    /\ Messages[Len(Messages)].emotion = EMOTION_CRISIS

\* C2: no text the user submits, to the chat input or with "Save Entry", that
\* holds a crisis keyword (in any letter case) is sent to the model, neither
\* with send_message nor with generate_content.
C2_NoModelCallOnCrisisText ==
    (lastRun.event \in {"chat", "save"} /\ HasCrisisKeyword(lastRun.input)) =>
        ~lastRun.called

\* A chat turn in which send_message raised.
FailedTurn ==
    lastRun.event = "chat" /\ lastRun.called /\ lastRun.resp.outcome = "raised"

\* C3: when send_message fails in a turn, the turn appends the fallback text
\* with emotion "Error" and ends with no chat object in the session state; the
\* next run creates a chat object that did not exist before and calls nothing,
\* and every send_message goes to the chat object created last.
C3_FailureDiscardsChat ==
    /\ [](FailedTurn =>
            /\ Len(Messages) >= 2
            /\ LastMessages(2) = <<UserMessage(lastRun.input),
                                   AssistantMessage(CONNECT_FALLBACK, EMOTION_ERROR)>>
            /\ session_state.chat = NoChat
            /\ rerunPending)
    /\ []((lastRun.event = "chat" /\ lastRun.called) =>
            (lastRun.chat # NoChat /\ lastRun.chat = chatsCreated))
    /\ [][FailedTurn =>
            /\ session_state'.chat # NoChat
            /\ session_state'.chat > chatsCreated
            /\ ~lastRun'.called]_vars

\* C3's case: a later turn calls send_message, on a chat object created after
\* the turn that failed.
C3_Witness ==
    /\ lastRun.event = "chat" /\ lastRun.called
    /\ \E i \in 1..(Len(Messages) - 2) :
           Messages[i].role = "assistant" /\ Messages[i].emotion = EMOTION_ERROR
    /\ lastRun.chat > 1

\* s is a prefix of t.
IsPrefix(s, t) == Len(s) <= Len(t) /\ SubSeq(t, 1, Len(s)) = s

\* C9: the message list only grows at its end: whatever the run (a chat turn of
\* any kind, a rerun that creates the chat object anew, a journal save), the
\* list before it is a prefix of the list after it.
C9_MessagesAppendOnly ==
    [][IsPrefix(session_state.messages, session_state'.messages)]_vars

\* C9's case: two turns, the chat object created anew between them, and a save.
C9_Witness ==
    /\ Len(Messages) >= 4
    /\ Messages[2].emotion = EMOTION_ERROR
    /\ chatsCreated >= 2
    /\ lastRun.event = "save" /\ lastRun.called

\* A step that is a run triggered by "Save Entry".
SaveStep == ~rerunPending /\ lastRun'.event = "save"

\* text is empty or holds white space only.
IsBlank(text) == \A i \in 1..Len(text) : text[i] \in Whitespace

DigitValue(c) == CHOOSE n \in 0..9 : DigitChars[n + 1] = c

\* key is the text YYYY-MM-DD of date.
IsIsoKeyOf(key, date) ==
    /\ Len(key) = 10
    /\ key[5] = "-" /\ key[8] = "-"
    /\ \A i \in {1, 2, 3, 4, 6, 7, 9, 10} : \E n \in 0..9 : DigitChars[n + 1] = key[i]
    /\ date.y = 1000 * DigitValue(key[1]) + 100 * DigitValue(key[2])
                + 10 * DigitValue(key[3]) + DigitValue(key[4])
    /\ date.m = 10 * DigitValue(key[6]) + DigitValue(key[7])
    /\ date.d = 10 * DigitValue(key[9]) + DigitValue(key[10])

\* C10: a save with a text that is not blank appends one entry at the end of
\* the list under the ISO key of the current date and changes no other list and
\* no stored entry; a save with a blank text changes no journal state and calls
\* no model; every key of the journal is an ISO date.
C10_SaveAppendsUnderToday ==
    /\ [][SaveStep =>
            IF IsBlank(lastRun'.input)
            THEN /\ Journal' = Journal
                 /\ session_state'.journal_entry_key = session_state.journal_entry_key
                 /\ ~lastRun'.called
            ELSE \E key \in DOMAIN Journal' :
                    /\ IsIsoKeyOf(key, DateAt(clock'))
                    /\ DOMAIN Journal' = DOMAIN Journal \cup {key}
                    /\ \A k \in DOMAIN Journal \ {key} : Journal'[k] = Journal[k]
                    /\ LET old == IF key \in DOMAIN Journal THEN Journal[key] ELSE <<>>
                       IN  /\ Len(Journal'[key]) = Len(old) + 1
                           /\ SubSeq(Journal'[key], 1, Len(old)) = old]_vars
    /\ [](\A k \in DOMAIN Journal : \E t \in 0..clock : IsIsoKeyOf(k, DateAt(t)))

\* C10's case: a save on the second day, with an entry of the first day stored.
C10_Witness ==
    /\ lastRun.event = "save" /\ lastRun.called
    /\ Cardinality(DOMAIN Journal) = 2

\* The positions of text that hold no white space.
Inked(text) == {i \in 1..Len(text) : text[i] \notin Whitespace}

\* text without the white space at its end.
TrimRight(text) ==
    IF Inked(text) = {} THEN <<>>
    ELSE SubSeq(text, 1, CHOOSE i \in Inked(text) : \A j \in Inked(text) : j <= i)

\* text without the white space at its start and at its end.
Trim(text) ==
    IF Inked(text) = {} THEN <<>>
    ELSE SubSeq(TrimRight(text), CHOOSE i \in Inked(text) : \A j \in Inked(text) : i <= j,
                Len(TrimRight(text)))

\* text begins with "[Emotion:".
BeginsWithTag(text) ==
    Len(text) >= Len(EMOTION_PREFIX) /\ SubSeq(text, 1, Len(EMOTION_PREFIX)) = EMOTION_PREFIX

\* The last run was a chat turn in which the model gave back text.
Parsed(text) == lastRun.event = "chat" /\ lastRun.called /\ lastRun.resp = Answer(text)

\* The last message is the assistant's, with this response and this emotion.
Replied(response, emotion) ==
    Len(Messages) >= 1 /\ Messages[Len(Messages)] = AssistantMessage(response, emotion)

\* C4 as stated: an output "[Emotion: " + W + "] " + R, W without "]" and R not
\* empty, is parsed to emotion W and response R.
C4_TagParsedVerbatim ==
    \A W \in TagWords, R \in ResponseTexts :
        Parsed(TagForm(W, R)) => Replied(R, W)

\* C4: an output "[Emotion: " + W + "] " + R, W without "]" and R not empty, is
\* parsed to emotion W and to the response R without the white space at its
\* end, also when R holds "] "; when R is white space only the response is
\* "I hear you.".
C4_TagParsedTrimmed ==
    \A W \in TagWords, R \in ResponseTexts :
        Parsed(TagForm(W, R)) =>
            Replied(IF TrimRight(R) = <<>> THEN I_HEAR_YOU ELSE TrimRight(R), W)

\* C4's case: a tagged output whose response holds "] " twice.
C4_Witness ==
    \E W \in TagWords, R \in ResponseTexts :
        /\ Parsed(TagForm(W, R))
        /\ Cardinality({i \in 1..(Len(R) - 1) : SubSeq(R, i, i + 1) = CLOSE_BRACKET_SP}) = 2
        /\ Replied(R, W)

\* C5 as stated: an output that does not begin with "[Emotion:" is given the
\* emotion "Neutral/Unknown" and, as the response, the whole output without the
\* white space around it.
C5_UntaggedRawIsNeutral ==
    \A text \in UntaggedTexts \cup PaddedTagTexts :
        (Parsed(text) /\ ~BeginsWithTag(text)) =>
            Replied(Trim(text), NEUTRAL_UNKNOWN)

\* C5: an output that, without the white space around it, does not begin with
\* "[Emotion:" is given the emotion "Neutral/Unknown" and, as the response, the
\* whole output without the white space around it.
C5_UntaggedIsNeutral ==
    \A text \in UntaggedTexts \cup PaddedTagTexts \cup MalformedTexts :
        (Parsed(text) /\ ~BeginsWithTag(Trim(text))) =>
            Replied(Trim(text), NEUTRAL_UNKNOWN)

\* C5's case: an output that opens a bracket, but not the tag.
C5_Witness ==
    \E text \in UntaggedTexts :
        /\ Parsed(text)
        /\ Len(text) > 0 /\ text[1] = "["
        /\ Replied(text, NEUTRAL_UNKNOWN)

\* C6: an output whose brackets are malformed or missing is given the emotion
\* "Neutral/Unknown" and, as the response, the whole output (parsing raises for
\* none of them).
C6_MalformedIsNeutral ==
    \A text \in MalformedTexts :
        Parsed(text) => Replied(Trim(text), NEUTRAL_UNKNOWN)

\* The analysis cannot be parsed: the call raised, the response has no text,
\* the text is no JSON, or its JSON value is no object.
Unparseable(resp) ==
    \/ resp \in {Raised, NoText}
    \/ resp.outcome = "text" /\ resp.text \in NotJsonTexts \cup NonObjectJsonTexts

\* The step appends one entry, under the key of the current date, with this
\* content and the two placeholders.
SavedWithPlaceholders(content) ==
    /\ Entries(session_state') = Entries(session_state) + 1
    /\ \E key \in DOMAIN Journal' :
          /\ IsIsoKeyOf(key, DateAt(clock'))
          /\ LET old == IF key \in DOMAIN Journal THEN Journal[key] ELSE <<>>
                 new == Journal'[key]
             IN  /\ Len(new) = Len(old) + 1
                 /\ SubSeq(new, 1, Len(old)) = old
                 /\ new[Len(new)].content = content
                 /\ new[Len(new)].summary = PyStr(COULD_NOT_GENERATE)
                 /\ new[Len(new)].sentiment = PyStr(ANALYSIS_ERROR)

\* C7 as stated: when the analysis of a text that is not blank cannot be
\* parsed, the save appends one entry for the current date, with the submitted
\* text as its content and the two placeholders.
C7_UnparseableSavesSubmitted ==
    [][(SaveStep /\ ~IsBlank(lastRun'.input) /\ Unparseable(lastRun'.resp)) =>
          SavedWithPlaceholders(lastRun'.input)]_vars

\* C7: when the analysis of a text that is not blank cannot be parsed, the save
\* appends one entry for the current date, with the submitted text without the
\* white space around it as its content, and the two placeholders.
C7_UnparseableSavesStripped ==
    [][(SaveStep /\ ~IsBlank(lastRun'.input) /\ Unparseable(lastRun'.resp)) =>
          SavedWithPlaceholders(Trim(lastRun'.input))]_vars

\* C7's case: a text with white space around it saved when the analysis was a
\* JSON value that is no object.
C7_Witness ==
    /\ lastRun.event = "save" /\ lastRun.called
    /\ lastRun.input # Trim(lastRun.input)
    /\ lastRun.resp.outcome = "text" /\ lastRun.resp.text \in NonObjectJsonTexts
    /\ \E key \in DOMAIN Journal :
          Journal[key][Len(Journal[key])].sentiment = PyStr(ANALYSIS_ERROR)

\* The assistant's messages, and the entries of the journal.
AssistantSlots == {i \in 1..Len(Messages) : Messages[i].role = "assistant"}
JournalSlots == UNION {{<<d, i>> : i \in 1..Len(Journal[d])} : d \in DOMAIN Journal}

ChatCount(l) == Cardinality({i \in AssistantSlots : Messages[i].emotion = l})
JournalCount(l) == Cardinality({p \in JournalSlots : Journal[p[1]][p[2]].sentiment = l})

\* The labels the claim calls informative.
InformativeEmotions ==
    {Messages[i].emotion : i \in AssistantSlots}
        \ {NEUTRAL_UNKNOWN, EMOTION_ERROR, EMOTION_CRISIS}
InformativeSentiments ==
    {Journal[p[1]][p[2]].sentiment : p \in JournalSlots}
        \ {PyStr(ANALYSIS_ERROR), PyStr(SENTIMENT_UNKNOWN)}

\* table lists each of the labels once, with its count, the counts never rising.
IsTableOf(table, labels, Count(_)) ==
    /\ Len(table) = Cardinality(labels)
    /\ {table[i] : i \in 1..Len(table)} = {[label |-> l, count |-> Count(l)] : l \in labels}
    /\ \A i \in 1..(Len(table) - 1) : table[i].count >= table[i + 1].count

\* C8: whatever the session holds, the insights tab, once rendered, lists the
\* emotions other than "Neutral/Unknown", "Error" and "Crisis" and the
\* sentiments other than "Analysis Error" and "Unknown", each once with the
\* number of its occurrences, in order of non-increasing count.
C8_InsightsListInformative ==
    ~rerunPending =>
        /\ ~display.raised
        /\ IsTableOf(display.chat, InformativeEmotions, ChatCount)
        /\ IsTableOf(display.journal, InformativeSentiments, JournalCount)

\* v is a key: a text that is not empty.
HoldsKey(v) == v.t = "str" /\ Len(v.s) > 0

\* Neither the secrets nor the environment hold a key.
NoCredential == ~HoldsKey(credentials.secrets) /\ ~HoldsKey(credentials.env)

\* C11: with no key in the secrets and none in the environment, every run ends
\* at st.stop() in the setup: no client and no chat object is ever created, the
\* session state stays as new, and no run is a chat turn or a save or calls the
\* model.
C11_NoCredentialIsFatal ==
    /\ [](NoCredential =>
            /\ ~apiKey
            /\ session_state = NewSession
            /\ chatsCreated = 0
            /\ lastRun.event \in {"none", "stopped"}
            /\ ~lastRun.called)
    /\ [][NoCredential => lastRun'.event = "stopped"]_vars

\* C11's case: a run that stopped with an empty key in the secrets and no
\* variable in the environment.
C11_Witness ==
    /\ NoCredential
    /\ credentials.secrets = PyStr(<<>>) /\ credentials.env = PyNone
    /\ lastRun.event = "stopped"

\* A step that is a run triggered by a submitted prompt.
ChatStep == ~rerunPending /\ lastRun'.event = "chat"

\* m is an assistant's message with an emotion.
IsAssistantMessage(m) ==
    DOMAIN m = {"role", "content", "emotion"} /\ m.role = "assistant"

\* C12: a turn appends two messages, the user's with the prompt and then one of
\* the assistant with an emotion, whether the turn is a crisis one, an answered
\* one or a failed one; so the list always has even length, the messages at odd
\* places are the user's and those at even places the assistant's, each with an
\* emotion.
C12_TurnAppendsPair ==
    /\ [][ChatStep =>
            /\ Len(Messages') = Len(Messages) + 2
            /\ SubSeq(Messages', 1, Len(Messages)) = Messages
            /\ Messages'[Len(Messages) + 1] = UserMessage(lastRun'.input)
            /\ IsAssistantMessage(Messages'[Len(Messages) + 2])]_vars
    /\ [](/\ Len(Messages) % 2 = 0
          /\ \A i \in 1..Len(Messages) :
                IF i % 2 = 1
                THEN DOMAIN Messages[i] = {"role", "content"} /\ Messages[i].role = "user"
                ELSE IsAssistantMessage(Messages[i]))

\* C12's case: a crisis turn, then a turn in which send_message raised, then an
\* answered turn.
C12_Witness ==
    /\ Len(Messages) = 6
    /\ Messages[2].emotion = EMOTION_CRISIS
    /\ Messages[4].emotion = EMOTION_ERROR
    /\ Messages[6].emotion \notin {EMOTION_CRISIS, EMOTION_ERROR, NEUTRAL_UNKNOWN}
    /\ lastRun.event = "chat" /\ lastRun.called

=============================================================================
